---------------------------- MODULE Spec2Model ----------------------------
(***************************************************************************)
(* minauto: DFA minimization (main.c, partit.c, ufind.c, dead.c, inout.c). *)
(*                                                                         *)
(* The static objects of the program (in_dfa, out_dfa, groups, connected)  *)
(* are the state; process_file is followed step by step: input_dfa,        *)
(* init_partitions, one partition sweep per step, compress_dfa,            *)
(* find_dead_states, output_dfa.  Every C function is an operator that     *)
(* returns what the function leaves in the arrays it was handed.           *)
(***************************************************************************)
EXTENDS Integers, Sequences, FiniteSets, TLC

\* Largest NSTATES / NAB of the DFA descriptions fed to the single-file runs.
MaxStates == 3
MaxAb == 2
\* Longest word the language properties run through an automaton.
MaxLen == 4
\* Number of filenames on the command line of the multi-file runs, and the
\* largest NSTATES / NAB of the descriptions they hold.
MaxFiles == 2
SharedStates == 3
SharedAb == 1
\* Largest NSTATES / NAB of the descriptions in the runs that look at the
\* sweeps of partition: two classes of two states each need four states.
SweepStates == 4
SweepAb == 1
\* Number of elements of the rep[] vector in the runs of ufind.c on its own.
UFSize == 5
\* Largest NSTATES / NAB of the descriptions in the runs that follow the exit
\* status of the process.
ExitStates == 2
ExitAb == 1

\* The arrays are as long as the largest description in use needs.
Cap == CHOOSE m \in {MaxStates, SharedStates, SweepStates, ExitStates} :
          \A x \in {MaxStates, SharedStates, SweepStates, ExitStates} : m >= x
CapAb == CHOOSE m \in {MaxAb, SharedAb, SweepAb, ExitAb} :
            \A x \in {MaxAb, SharedAb, SweepAb, ExitAb} : m >= x

States == 1..Cap
Symbols == 1..CapAb

\* State attributes: 'A', 'D' and NUL (written "N").
Attribs == {"A", "D", "N"}

\* automaton_t as static storage holds it before anything is read: all zero.
ZeroDfa ==
    [nstates |-> 0, nab |-> 0,
     mat |-> [s \in States |-> [j \in Symbols |-> 0]],
     init_state |-> 0,
     accept |-> [k \in 0..Cap |-> 0],
     state_attrib |-> [s \in States |-> "N"]]

ZeroGroups == [s \in States |-> 0]

\* connected[][] with every cell FALSE (see dead.c below).
ZeroConnected == {}

-----------------------------------------------------------------------------
(* ufind.c *)

\* find, loop (a): follow the parents of elem up to the root.
RECURSIVE find_root(_, _)
find_root(i, rep) == IF rep[i] > 0 THEN find_root(rep[i], rep) ELSE i

\* find, loop (b): point every member of the path directly to the root.
RECURSIVE find_compress(_, _, _)
find_compress(elem, i, rep) ==
    IF rep[elem] > 0
    THEN find_compress(rep[elem], i, [rep EXCEPT ![elem] = i])
    ELSE rep

\* The mutation of find that leaves out loop (b).
find_no_compress(elem, rep) == [ret |-> find_root(elem, rep), rep |-> rep]

find(elem, rep) ==
    LET i == find_root(elem, rep)
    IN  [ret |-> i, rep |-> find_compress(elem, i, rep)]

\* The mutation of Union that attaches elem1 itself, not its root.
UnionNoRoot(elem1, elem2, rep) ==
    LET f1 == find(elem1, rep)
        f2 == find(elem2, f1.rep)
        i == f1.ret
        j == f2.ret
        r == f2.rep
    IN  IF i # j
        THEN [r EXCEPT ![j] = r[j] + (r[i] - 1), ![elem1] = j]
        ELSE r

\* The mutation of Union without weight balancing: j always goes under i.
UnionFirstSurvives(elem1, elem2, rep) ==
    LET f1 == find(elem1, rep)
        f2 == find(elem2, f1.rep)
        i == f1.ret
        j == f2.ret
        r == f2.rep
    IN  IF i # j
        THEN [r EXCEPT ![i] = r[i] + (r[j] - 1), ![j] = i]
        ELSE r

\* The mutation of Union that does not count the attached root.
UnionWeightOff(elem1, elem2, rep) ==
    LET f1 == find(elem1, rep)
        f2 == find(elem2, f1.rep)
        i == f1.ret
        j == f2.ret
        r == f2.rep
    IN  IF i # j
        THEN IF r[j] > r[i]
             THEN [r EXCEPT ![i] = r[i] + r[j], ![j] = i]
             ELSE [r EXCEPT ![j] = r[j] + r[i], ![i] = j]
        ELSE r

\* The mutation of Union that resolves ties the other way round.
UnionTieFirst(elem1, elem2, rep) ==
    LET f1 == find(elem1, rep)
        f2 == find(elem2, f1.rep)
        i == f1.ret
        j == f2.ret
        r == f2.rep
    IN  IF i # j
        THEN IF r[j] >= r[i]
             THEN [r EXCEPT ![i] = r[i] + (r[j] - 1), ![j] = i]
             ELSE [r EXCEPT ![j] = r[j] + (r[i] - 1), ![i] = j]
        ELSE r

Union(elem1, elem2, rep) ==
    LET f1 == find(elem1, rep)
        f2 == find(elem2, f1.rep)
        i == f1.ret
        j == f2.ret
        r == f2.rep
    IN  IF i # j
        THEN IF r[j] > r[i]
             THEN [r EXCEPT ![i] = r[i] + (r[j] - 1), ![j] = i]
             ELSE [r EXCEPT ![j] = r[j] + (r[i] - 1), ![i] = j]
        ELSE r

-----------------------------------------------------------------------------
(* partit.c *)

\* init_partitions, second loop, from state i on.
RECURSIVE init_partitions_loop(_, _, _, _, _, _)
init_partitions_loop(i, nstates, attribs, accept_rep, others_rep, groups) ==
    IF i > nstates THEN groups
    ELSE IF attribs[i] = "A"
         THEN IF accept_rep = 0
              THEN init_partitions_loop(i + 1, nstates, attribs, i, others_rep, groups)
              ELSE init_partitions_loop(i + 1, nstates, attribs, accept_rep, others_rep,
                                        Union(accept_rep, i, groups))
         ELSE IF others_rep = 0
              THEN init_partitions_loop(i + 1, nstates, attribs, accept_rep, i, groups)
              ELSE init_partitions_loop(i + 1, nstates, attribs, accept_rep, others_rep,
                                        Union(others_rep, i, groups))

\* The mutation of init_partitions whose Union calls name the new state first.
RECURSIVE init_partitions_loop_swapped(_, _, _, _, _, _)
init_partitions_loop_swapped(i, nstates, attribs, accept_rep, others_rep, groups) ==
    IF i > nstates THEN groups
    ELSE IF attribs[i] = "A"
         THEN IF accept_rep = 0
              THEN init_partitions_loop_swapped(i + 1, nstates, attribs, i, others_rep,
                                                groups)
              ELSE init_partitions_loop_swapped(i + 1, nstates, attribs, accept_rep,
                                                others_rep, Union(i, accept_rep, groups))
         ELSE IF others_rep = 0
              THEN init_partitions_loop_swapped(i + 1, nstates, attribs, accept_rep, i,
                                                groups)
              ELSE init_partitions_loop_swapped(i + 1, nstates, attribs, accept_rep,
                                                others_rep, Union(i, others_rep, groups))

init_partitions_swapped(nstates, attribs, groups) ==
    init_partitions_loop_swapped(1, nstates, attribs, 0, 0,
                         [s \in States |-> IF s <= nstates THEN 0 ELSE groups[s]])

init_partitions(nstates, attribs, groups) ==
    init_partitions_loop(1, nstates, attribs, 0, 0,
                         [s \in States |-> IF s <= nstates THEN 0 ELSE groups[s]])

\* update_partitions, first loop: does some member have different roots in
\* old_groups and new_groups?  find compresses the paths it walks in both.
RECURSIVE update_partitions_scan(_, _, _, _, _)
update_partitions_scan(i, group_size, member, old_groups, new_groups) ==
    IF i >= group_size
    THEN [update |-> FALSE, old_groups |-> old_groups, new_groups |-> new_groups]
    ELSE LET state == member[i + 1]
             fo == find(state, old_groups)
             fn == find(state, new_groups)
         IN  IF fo.ret # fn.ret
             THEN [update |-> TRUE, old_groups |-> fo.rep, new_groups |-> fn.rep]
             ELSE update_partitions_scan(i + 1, group_size, member, fo.rep, fn.rep)

\* The mutation of update_partitions that never reports a difference.
update_partitions_silent(group_size, member, old_groups, new_groups) ==
    [ret |-> FALSE,
     old_groups |-> update_partitions_scan(0, group_size, member, old_groups,
                                           new_groups).old_groups]

update_partitions(group_size, member, old_groups, new_groups) ==
    LET sc == update_partitions_scan(0, group_size, member, old_groups, new_groups)
        members == {member[k] : k \in 1..group_size}
    IN  IF sc.update
        THEN [ret |-> TRUE,
              old_groups |-> [s \in States |->
                                 IF s \in members THEN sc.new_groups[s]
                                 ELSE sc.old_groups[s]]]
        ELSE [ret |-> FALSE, old_groups |-> sc.old_groups]

\* same_transitions, from alphabet symbol i on.  The sink 0 is compared as it
\* is; a real target is replaced by its representative.
RECURSIVE same_transitions_loop(_, _, _, _, _, _)
same_transitions_loop(i, s1, s2, mat, nab, groups) ==
    IF i > nab THEN [ret |-> TRUE, groups |-> groups]
    ELSE LET t1 == mat[s1][i]
             t2 == mat[s2][i]
             f1 == IF t1 > 0 THEN find(t1, groups) ELSE [ret |-> t1, rep |-> groups]
             f2 == IF t2 > 0 THEN find(t2, f1.rep) ELSE [ret |-> t2, rep |-> f1.rep]
         IN  IF f1.ret # f2.ret
             THEN [ret |-> FALSE, groups |-> f2.rep]
             ELSE same_transitions_loop(i + 1, s1, s2, mat, nab, f2.rep)

\* The mutation of same_transitions that starts at the second alphabet symbol.
same_transitions_skip_first(s1, s2, mat, nab, groups) ==
    same_transitions_loop(2, s1, s2, mat, nab, groups)

same_transitions(s1, s2, mat, nab, groups) ==
    same_transitions_loop(1, s1, s2, mat, nab, groups)

\* partition, lines 311-318: collect the members of the group of rep and make
\* them disjoint in new_groups.  st = [member, old_groups, new_groups, unified].
RECURSIVE partition_members(_, _, _, _)
partition_members(i, nstates, rep, st) ==
    IF i > nstates THEN st
    ELSE LET f == find(i, st.old_groups)
         IN  IF f.ret = rep
             THEN partition_members(i + 1, nstates, rep,
                      [member |-> Append(st.member, i),
                       old_groups |-> f.rep,
                       new_groups |-> [st.new_groups EXCEPT ![i] = 0],
                       unified |-> [st.unified EXCEPT ![i] = FALSE]])
             ELSE partition_members(i + 1, nstates, rep,
                      [st EXCEPT !.old_groups = f.rep])

\* partition, lines 345-352: the inner loop over j for a fixed i.
RECURSIVE partition_inner(_, _, _, _)
partition_inner(j, i, dfa, st) ==
    IF j >= Len(st.member) THEN st
    ELSE IF st.unified[st.member[j + 1]]
         THEN partition_inner(j + 1, i, dfa, st)
         ELSE LET same == same_transitions(st.member[i + 1], st.member[j + 1],
                                           dfa.mat, dfa.nab, st.old_groups)
              IN  IF same.ret
                  THEN partition_inner(j + 1, i, dfa,
                           [st EXCEPT !.old_groups = same.groups,
                                      !.new_groups = Union(st.member[i + 1],
                                                           st.member[j + 1],
                                                           st.new_groups),
                                      !.unified[st.member[j + 1]] = TRUE])
                  ELSE partition_inner(j + 1, i, dfa,
                           [st EXCEPT !.old_groups = same.groups])

\* partition, lines 336-353: the loop over i.
RECURSIVE partition_pairs(_, _, _)
partition_pairs(i, dfa, st) ==
    IF i >= Len(st.member) - 1 THEN st
    ELSE IF st.unified[st.member[i + 1]]
         THEN partition_pairs(i + 1, dfa, st)
         ELSE partition_pairs(i + 1, dfa,
                  partition_inner(i + 1, i, dfa,
                      [st EXCEPT !.unified[st.member[i + 1]] = TRUE]))

\* partition, lines 301-361: the loop over rep.  new_groups and unified are
\* locals of partition: cells of states outside the current group are never
\* read, so the values carried from the previous group do not matter.
RECURSIVE partition_loop(_, _, _, _, _, _)
partition_loop(rep, dfa, old_groups, new_groups, unified, updated) ==
    IF rep > dfa.nstates THEN [ret |-> updated, groups |-> old_groups]
    ELSE IF old_groups[rep] >= 0
         THEN partition_loop(rep + 1, dfa, old_groups, new_groups, unified, updated)
         ELSE LET m == partition_members(1, dfa.nstates, rep,
                           [member |-> <<>>, old_groups |-> old_groups,
                            new_groups |-> new_groups, unified |-> unified])
                  p == partition_pairs(0, dfa, m)
                  u == update_partitions(Len(p.member), p.member,
                                         p.old_groups, p.new_groups)
              IN  partition_loop(rep + 1, dfa, u.old_groups, p.new_groups,
                                 p.unified, updated \/ u.ret)

partition(dfa, old_groups) ==
    partition_loop(1, dfa, old_groups, ZeroGroups,
                   [s \in States |-> FALSE], FALSE)

-----------------------------------------------------------------------------
(* main.c: compress_dfa *)

\* compress_dfa, lines 192-205: rep[i] = find(i, groups); a state that is its
\* own representative gets the next new id.  c = [rep, map, pam, rep_count,
\* groups]; rep, map and pam are indexed from 0 and hold 0 at 0.
RECURSIVE compress_scan(_, _, _)
compress_scan(i, nstates, c) ==
    IF i > nstates THEN c
    ELSE LET f == find(i, c.groups)
         IN  IF i = f.ret
             THEN compress_scan(i + 1, nstates,
                      [rep |-> [c.rep EXCEPT ![i] = f.ret],
                       map |-> [c.map EXCEPT ![i] = c.rep_count + 1],
                       pam |-> [c.pam EXCEPT ![c.rep_count + 1] = i],
                       rep_count |-> c.rep_count + 1,
                       groups |-> f.rep])
             ELSE compress_scan(i + 1, nstates,
                      [c EXCEPT !.rep[i] = f.ret, !.groups = f.rep])

\* compress_dfa, lines 208-221: the rows, the attributes and the accept list
\* of the new states i..rep_count.  No cell of new_dfa.accept is written
\* after the last accepting state.
RECURSIVE compress_fill(_, _, _, _, _)
compress_fill(i, old_dfa, c, a_count, new_dfa) ==
    IF i > c.rep_count THEN new_dfa
    ELSE LET row == [j \in Symbols |->
                        IF j <= old_dfa.nab
                        THEN c.map[c.rep[old_dfa.mat[c.pam[i]][j]]]
                        ELSE new_dfa.mat[i][j]]
             attr == old_dfa.state_attrib[c.pam[i]]
         IN  IF attr = "A"
             THEN compress_fill(i + 1, old_dfa, c, a_count + 1,
                      [new_dfa EXCEPT !.mat[i] = row,
                                      !.state_attrib[i] = attr,
                                      !.accept[a_count] = i])
             ELSE compress_fill(i + 1, old_dfa, c, a_count,
                      [new_dfa EXCEPT !.mat[i] = row,
                                      !.state_attrib[i] = attr])

\* The local arrays of compress_dfa after line 190.
compress_locals(groups) ==
    [rep |-> [s \in 0..Cap |-> 0], map |-> [s \in 0..Cap |-> 0],
     pam |-> [s \in 0..Cap |-> 0], rep_count |-> 0, groups |-> groups]

compress_dfa(old_dfa, new_dfa, groups) ==
    LET c == compress_scan(1, old_dfa.nstates, compress_locals(groups))
        filled == compress_fill(1, old_dfa, c, 0, new_dfa)
    IN  [new_dfa |-> [filled EXCEPT !.nstates = c.rep_count,
                                    !.nab = old_dfa.nab,
                                    !.init_state = c.map[c.rep[old_dfa.init_state]]],
         groups |-> c.groups,
         pam |-> c.pam]

-----------------------------------------------------------------------------
(* dead.c *)

\* The matrix connected[][] is held as the set of the pairs <<i, j>> whose
\* cell connected[i][j] is TRUE.

\* The mutation of init_connections that does not clear the cells first.
init_connections_no_clear(conn, transitions_mat, nstates, nab) ==
    conn
        \cup {<<src, src>> : src \in 1..nstates}
        \cup {c \in (1..nstates) \X (1..nstates) :
                 \E i \in 1..nab : transitions_mat[c[1]][i] = c[2]}

\* init_connections: rows 1..nstates are cleared in columns 1..nstates, then
\* the diagonal and the direct transitions are set.
init_connections(conn, transitions_mat, nstates, nab) ==
    {c \in conn : c[1] > nstates \/ c[2] > nstates}
        \cup {<<src, src>> : src \in 1..nstates}
        \cup {c \in (1..nstates) \X (1..nstates) :
                 \E i \in 1..nab : transitions_mat[c[1]][i] = c[2]}

\* t_closure, lines 112-118: for fixed i and j with connected[j][i], the loop
\* over k sets connected[j][k] for every k with connected[i][k] (row i is not
\* changed by it unless j = i, where nothing changes).
t_closure_row(i, j, nstates, conn) ==
    IF <<j, i>> \in conn
    THEN conn \cup {<<j, k>> : k \in {x \in 1..nstates : <<i, x>> \in conn}}
    ELSE conn

RECURSIVE t_closure_j(_, _, _, _)
t_closure_j(i, j, nstates, conn) ==
    IF j > nstates THEN conn
    ELSE t_closure_j(i, j + 1, nstates, t_closure_row(i, j, nstates, conn))

RECURSIVE t_closure_i(_, _, _)
t_closure_i(i, nstates, conn) ==
    IF i > nstates THEN conn
    ELSE t_closure_i(i + 1, nstates, t_closure_j(i, 1, nstates, conn))

\* The mutation of t_closure whose loop over j starts at the pivot i.
RECURSIVE t_closure_i_upper(_, _, _)
t_closure_i_upper(i, nstates, conn) ==
    IF i > nstates THEN conn
    ELSE t_closure_i_upper(i + 1, nstates, t_closure_j(i, i, nstates, conn))

t_closure_upper(nstates, conn) == t_closure_i_upper(1, nstates, conn)

t_closure(nstates, conn) == t_closure_i(1, nstates, conn)

\* find_dead_states, lines 56-58: the accept list is walked from index j up to
\* the first 0; TRUE iff an entry reachable from i comes before it.
RECURSIVE reaches_listed_accept(_, _, _, _)
reaches_listed_accept(j, i, accept, conn) ==
    IF accept[j] = 0 THEN FALSE
    ELSE IF <<i, accept[j]>> \in conn THEN TRUE
    ELSE reaches_listed_accept(j + 1, i, accept, conn)

\* The mutation of the first pass that tests connected[i][init_state].
mark_unreachable_swapped(dfa, conn) ==
    [s \in States |->
        IF s <= dfa.nstates /\ <<s, dfa.init_state>> \notin conn THEN "D"
        ELSE dfa.state_attrib[s]]

\* find_dead_states, lines 44-47.
mark_unreachable(dfa, conn) ==
    [s \in States |->
        IF s <= dfa.nstates /\ <<dfa.init_state, s>> \notin conn THEN "D"
        ELSE dfa.state_attrib[s]]

\* find_dead_states, lines 50-63.
mark_not_accepting(dfa, attrib, conn) ==
    [s \in States |->
        IF s <= dfa.nstates /\ attrib[s] \notin {"D", "A"}
           /\ ~reaches_listed_accept(0, s, dfa.accept, conn)
        THEN "D"
        ELSE attrib[s]]

\* The mutation of find_dead_states that leaves out the first pass.
find_dead_states_no_unreachable(dfa, connected0) ==
    LET conn == t_closure(dfa.nstates,
                          init_connections(connected0, dfa.mat, dfa.nstates, dfa.nab))
    IN  [dfa |-> [dfa EXCEPT !.state_attrib =
                      mark_not_accepting(dfa, dfa.state_attrib, conn)],
         connected |-> conn]

find_dead_states(dfa, connected0) ==
    LET conn == t_closure(dfa.nstates,
                          init_connections(connected0, dfa.mat, dfa.nstates, dfa.nab))
    IN  [dfa |-> [dfa EXCEPT !.state_attrib =
                      mark_not_accepting(dfa, mark_unreachable(dfa, conn), conn)],
         connected |-> conn]

-----------------------------------------------------------------------------
(* inout.c *)

\* The ids of a set in ascending order.
RECURSIVE Ascending(_)
Ascending(S) ==
    IF S = {} THEN <<>>
    ELSE LET m == CHOOSE x \in S : \A y \in S : x <= y
         IN  <<m>> \o Ascending(S \ {m})

\* A DFA description input_dfa reads without calling Abort: NSTATES and NAB in
\* range, every Sij in -1..NSTATES-1, the accept states S as external ids
\* (listed in ascending order, each once).
File(n, a, r, S) == [nstates |-> n, nab |-> a, rows |-> r, accepts |-> Ascending(S)]

\* input_dfa, lines 171-179: the accept ids read from index k of the list on.
RECURSIVE input_accepts(_, _, _)
input_accepts(k, accepts, dfa) ==
    IF k > Len(accepts) THEN [dfa EXCEPT !.accept[k - 1] = 0]
    ELSE input_accepts(k + 1, accepts,
             [dfa EXCEPT !.state_attrib[accepts[k] + 1] = "A",
                         !.accept[k - 1] = accepts[k] + 1])

\* input_dfa: external state s is stored as s + 1, -1 as the sink 0; cells of
\* states and symbols beyond NSTATES and NAB keep what they held.
input_dfa(dfa, file) ==
    input_accepts(1, file.accepts,
        [dfa EXCEPT !.nstates = file.nstates,
                    !.nab = file.nab,
                    !.init_state = 1,
                    !.state_attrib = [s \in States |->
                                         IF s <= file.nstates THEN "N" ELSE @[s]],
                    !.mat = [s \in States |-> [j \in Symbols |->
                                IF s <= file.nstates /\ j <= file.nab
                                THEN IF file.rows[s][j] >= 0
                                     THEN file.rows[s][j] + 1 ELSE 0
                                ELSE @[s][j]]]])

IS_DEAD(dfa, s) == dfa.state_attrib[s] = "D"

ATTRIB(dfa, s) == IF dfa.state_attrib[s] = "N" THEN "s" ELSE dfa.state_attrib[s]

\* output_dfa, lines 219-227: the cells of the row of state i; "-" is printed
\* for no transition and for a transition into a dead state.
output_row(dfa, i) ==
    [j \in 1..dfa.nab |->
        LET s == dfa.mat[i][j]
        IN  IF s <= 0 \/ IS_DEAD(dfa, s) THEN <<"-", -1>>
            ELSE <<ATTRIB(dfa, s), s - 1>>]

\* output_dfa, as what it prints: the rows of the states that are not dead,
\* then either the EMPTY line or the initial state.
output_dfa(dfa) ==
    IF dfa.nstates = 0 THEN [kind |-> "Empty DFA", rows |-> {}, init |-> <<"-", -1>>]
    ELSE LET live == {i \in 1..dfa.nstates : ~IS_DEAD(dfa, i)}
             rows == {<<ATTRIB(dfa, i), i - 1, output_row(dfa, i)>> : i \in live}
         IN  IF live = {}
             THEN [kind |-> "DFA minimized to EMPTY DFA", rows |-> rows,
                   init |-> <<"-", -1>>]
             ELSE [kind |-> "table", rows |-> rows,
                   init |-> <<ATTRIB(dfa, dfa.init_state), dfa.init_state - 1>>]

NothingPrinted == [kind |-> "none", rows |-> {}, init |-> <<"-", -1>>]

-----------------------------------------------------------------------------
(* main.c: process_file and minimize_dfa, step by step *)

VARIABLES
    pc,         \* where process_file stands
    argi,       \* main's i: the argument being processed
    in_dfa,     \* static automaton_t in_dfa
    out_dfa,    \* static automaton_t out_dfa
    groups,     \* static state_t groups[]
    connected,  \* dead.c: static char connected[][]
    pam,        \* compress_dfa's new->old mapping, as the last call left it
    printed,    \* what the two output_dfa calls of process_file printed
    calls,      \* partition calls made so far by the running minimize_dfa
    sweep,      \* partition, when followed group by group: its locals
    rep,        \* ufind.c on its own: the rep[] vector handed to find and Union
    classes,    \* the partition the Union calls on rep[] stand for
    call,       \* the last find / Union call on rep[] and what it returned
    exit_status,  \* the exit status of the process; Running until it ends
    open_failed   \* some filename could not be opened

ufind_vars == <<rep, classes, call>>
exit_vars == <<exit_status, open_failed>>

vars == <<pc, argi, in_dfa, out_dfa, groups, connected, pam, printed,
          calls, sweep, rep, classes, call, exit_status, open_failed>>

\* The elements of the rep[] vector of the runs of ufind.c on its own.
Elements == 1..UFSize

ZeroRep == [e \in Elements |-> 0]

NoCall == [op |-> "none", elem1 |-> 0, elem2 |-> 0, ret |-> 0, before |-> ZeroRep]

\* exit_status of a process that has not ended.
Running == -1

\* The locals of partition at its entry: rep = 1, updated = FALSE.
SweepStart ==
    [rep |-> 1, new_groups |-> ZeroGroups, unified |-> [s \in States |-> FALSE],
     updated |-> FALSE]

\* Static storage is zeroed when the process starts.
Init ==
    /\ pc = "input"
    /\ argi = 1
    /\ in_dfa = ZeroDfa
    /\ out_dfa = ZeroDfa
    /\ groups = ZeroGroups
    /\ connected = ZeroConnected
    /\ pam = [s \in 0..Cap |-> 0]
    /\ printed = [orig |-> NothingPrinted, min |-> NothingPrinted]
    /\ calls = 0
    /\ sweep = SweepStart
    /\ rep = ZeroRep
    /\ classes = {{e} : e \in Elements}
    /\ call = NoCall
    /\ exit_status = Running
    /\ open_failed = FALSE

\* process_file, lines 115-122: argument argi is opened and read by input_dfa,
\* and the original DFA is printed.
ProcessInput(maxStates, maxAb, argc) ==
    /\ pc = "input"
    /\ argi < argc
    /\ \E n \in 1..maxStates, a \in 1..maxAb :
          \E r \in [1..n -> [1..a -> -1..(n - 1)]], S \in SUBSET (0..(n - 1)) :
             /\ in_dfa' = input_dfa(in_dfa, File(n, a, r, S))
             /\ printed' = [printed EXCEPT !.orig = output_dfa(in_dfa')]
    /\ pc' = "init_partitions"
    /\ UNCHANGED <<argi, out_dfa, groups, connected, pam, calls, sweep, ufind_vars,
                   exit_vars>>

\* minimize_dfa, line 147.
InitPartitions ==
    /\ pc = "init_partitions"
    /\ groups' = init_partitions(in_dfa.nstates, in_dfa.state_attrib, groups)
    /\ calls' = 0
    /\ pc' = "partition"
    /\ UNCHANGED <<argi, in_dfa, out_dfa, connected, pam, printed, sweep, ufind_vars,
                   exit_vars>>

\* minimize_dfa, lines 153-154: one call of partition; the loop goes on while
\* it returns TRUE.
Partition ==
    /\ pc = "partition"
    /\ LET p == partition(in_dfa, groups)
       IN  /\ groups' = p.groups
           /\ pc' = IF p.ret THEN "partition" ELSE "compress_dfa"
    /\ calls' = calls + 1
    /\ UNCHANGED <<argi, in_dfa, out_dfa, connected, pam, printed, sweep, ufind_vars,
                   exit_vars>>

\* minimize_dfa, line 156.
Compress ==
    /\ pc = "compress_dfa"
    /\ LET c == compress_dfa(in_dfa, out_dfa, groups)
       IN  /\ out_dfa' = c.new_dfa
           /\ groups' = c.groups
           /\ pam' = c.pam
    /\ pc' = "find_dead_states"
    /\ UNCHANGED <<argi, in_dfa, connected, printed, calls, sweep, ufind_vars, exit_vars>>

\* minimize_dfa, line 158.
FindDeadStates ==
    /\ pc = "find_dead_states"
    /\ LET d == find_dead_states(out_dfa, connected)
       IN  /\ out_dfa' = d.dfa
           /\ connected' = d.connected
    /\ pc' = "output"
    /\ UNCHANGED <<argi, in_dfa, groups, pam, printed, calls, sweep, ufind_vars,
                   exit_vars>>

\* process_file, lines 125-126, and the return to main's loop.
Output ==
    /\ pc = "output"
    /\ printed' = [printed EXCEPT !.min = output_dfa(out_dfa)]
    /\ pc' = "input"
    /\ argi' = argi + 1
    /\ UNCHANGED <<in_dfa, out_dfa, groups, connected, pam, calls, sweep, ufind_vars,
                   exit_vars>>

\* One file on the command line (argc = 2), any description up to MaxStates
\* states and MaxAb symbols.
ReadOne == ProcessInput(MaxStates, MaxAb, 2)

Next ==
    \/ ReadOne
    \/ InitPartitions
    \/ Partition
    \/ Compress
    \/ FindDeadStates
    \/ Output

Spec == Init /\ [][Next]_vars

\* MaxFiles files on the command line, descriptions up to SharedStates states
\* and SharedAb symbols: the static buffers are reused from file to file.
ReadNext == ProcessInput(SharedStates, SharedAb, MaxFiles + 1)

NextShared ==
    \/ ReadNext
    \/ InitPartitions
    \/ Partition
    \/ Compress
    \/ FindDeadStates
    \/ Output

SpecShared == Init /\ [][NextShared]_vars

\* find_dead_states on its own: out_dfa holds any DFA as input_dfa builds it
\* (the accept list is sentinel-terminated and lists the states with
\* attribute 'A', no state is dead) with any initial state, and connected[][]
\* is either still clear or full of the TRUE cells of earlier calls.
InitDead ==
    /\ pc = "find_dead_states"
    /\ argi = 1
    /\ in_dfa = ZeroDfa
    /\ \E n \in 1..MaxStates, a \in 1..MaxAb :
          \E r \in [1..n -> [1..a -> -1..(n - 1)]], S \in SUBSET (0..(n - 1)) :
             \E q \in 1..n :
                out_dfa = [input_dfa(ZeroDfa, File(n, a, r, S)) EXCEPT !.init_state = q]
    /\ groups = ZeroGroups
    /\ connected \in {ZeroConnected, States \X States}
    /\ pam = [s \in 0..Cap |-> 0]
    /\ printed = [orig |-> NothingPrinted, min |-> NothingPrinted]
    /\ calls = 0
    /\ sweep = SweepStart
    /\ rep = ZeroRep
    /\ classes = {{e} : e \in Elements}
    /\ call = NoCall
    /\ exit_status = Running
    /\ open_failed = FALSE

NextDead == FindDeadStates

SpecDead == InitDead /\ [][NextDead]_vars

\* One file on the command line, any description up to SweepStates states and
\* SweepAb symbols.
ReadSweep == ProcessInput(SweepStates, SweepAb, 2)

NextSweeps ==
    \/ ReadSweep
    \/ InitPartitions
    \/ Partition
    \/ Compress
    \/ FindDeadStates
    \/ Output

SpecSweeps == Init /\ [][NextSweeps]_vars

-----------------------------------------------------------------------------
(* main.c: the exit status of the process *)

\* process_file, lines 115-118: freopen fails for argument argi; perror, and
\* process_file returns to main's loop.
OpenFails(argc) ==
    /\ pc = "input"
    /\ argi < argc
    /\ argi' = argi + 1
    /\ open_failed' = TRUE
    /\ UNCHANGED <<pc, in_dfa, out_dfa, groups, connected, pam, printed, calls, sweep,
                   ufind_vars, exit_status>>

\* input_dfa on a description it rejects: Abort prints and calls exit(1), and
\* the process ends with whatever input_dfa had stored so far.
Abort(argc) ==
    /\ pc = "input"
    /\ argi < argc
    /\ pc' = "exit"
    /\ exit_status' = 1
    /\ UNCHANGED <<argi, in_dfa, out_dfa, groups, connected, pam, printed, calls, sweep,
                   ufind_vars, open_failed>>

\* main, lines 93-100: the loop over the arguments is over; return 0.
Return(argc) ==
    /\ pc = "input"
    /\ argi = argc
    /\ pc' = "exit"
    /\ exit_status' = 0
    /\ UNCHANGED <<argi, in_dfa, out_dfa, groups, connected, pam, printed, calls, sweep,
                   ufind_vars, open_failed>>

\* MaxFiles filenames on the command line; each cannot be opened, or holds a
\* description input_dfa rejects, or one of up to ExitStates states and ExitAb
\* symbols.
ReadOrFail ==
    \/ ProcessInput(ExitStates, ExitAb, MaxFiles + 1)
    \/ OpenFails(MaxFiles + 1)
    \/ Abort(MaxFiles + 1)

NextExit ==
    \/ ReadOrFail
    \/ InitPartitions
    \/ Partition
    \/ Compress
    \/ FindDeadStates
    \/ Output
    \/ Return(MaxFiles + 1)

SpecExit == Init /\ [][NextExit]_vars

-----------------------------------------------------------------------------
(* ufind.c on its own: any sequence of Union and find calls on rep[] *)

\* The reference partition after the classes of a and b are merged.
Merged(a, b, P) ==
    LET ca == CHOOSE c \in P : a \in c
        cb == CHOOSE c \in P : b \in c
    IN  (P \ {ca, cb}) \cup {ca \cup cb}

\* Union(a, b, rep) for any two elements.
UnionCall ==
    /\ \E a, b \in Elements :
          /\ rep' = Union(a, b, rep)
          /\ classes' = Merged(a, b, classes)
          /\ call' = [op |-> "Union", elem1 |-> a, elem2 |-> b, ret |-> 0,
                      before |-> rep]
    /\ UNCHANGED <<pc, argi, in_dfa, out_dfa, groups, connected, pam, printed,
                   calls, sweep, exit_vars>>

\* find(e, rep) for any element.
FindCall ==
    /\ \E e \in Elements :
          LET f == find(e, rep)
          IN  /\ rep' = f.rep
              /\ call' = [op |-> "find", elem1 |-> e, elem2 |-> 0, ret |-> f.ret,
                          before |-> rep]
    /\ UNCHANGED <<pc, argi, in_dfa, out_dfa, groups, connected, pam, printed,
                   calls, sweep, classes, exit_vars>>

NextUF ==
    \/ UnionCall
    \/ FindCall

SpecUF == Init /\ [][NextUF]_vars

-----------------------------------------------------------------------------
(* partition followed group by group, next to ufind.c on its own *)

\* partition, lines 301-361: one pass of the loop over rep.  A state that is
\* not a root of weight below 0 is skipped; for a representative the members
\* are collected, unified pairwise in new_groups, and update_partitions
\* copies their cells of new_groups into groups when it finds a difference.
PartitionGroup ==
    /\ pc = "partition"
    /\ sweep.rep <= in_dfa.nstates
    /\ IF groups[sweep.rep] >= 0
       THEN /\ sweep' = [sweep EXCEPT !.rep = @ + 1]
            /\ UNCHANGED groups
       ELSE LET m == partition_members(1, in_dfa.nstates, sweep.rep,
                         [member |-> <<>>, old_groups |-> groups,
                          new_groups |-> sweep.new_groups,
                          unified |-> sweep.unified])
                p == partition_pairs(0, in_dfa, m)
                u == update_partitions(Len(p.member), p.member,
                                       p.old_groups, p.new_groups)
            IN  /\ groups' = u.old_groups
                /\ sweep' = [rep |-> sweep.rep + 1, new_groups |-> p.new_groups,
                             unified |-> p.unified,
                             updated |-> sweep.updated \/ u.ret]
    /\ UNCHANGED <<pc, argi, in_dfa, out_dfa, connected, pam, printed, calls,
                   ufind_vars, exit_vars>>

\* partition, line 362, and minimize_dfa, lines 153-154: return (updated); the
\* loop calls partition again while it returned TRUE.
PartitionReturn ==
    /\ pc = "partition"
    /\ sweep.rep > in_dfa.nstates
    /\ pc' = IF sweep.updated THEN "partition" ELSE "compress_dfa"
    /\ sweep' = SweepStart
    /\ calls' = calls + 1
    /\ UNCHANGED <<argi, in_dfa, out_dfa, groups, connected, pam, printed,
                   ufind_vars, exit_vars>>

\* The two users of ufind.c: a process that only calls Union and find on
\* rep[], and a process that minimizes one description of up to SweepStates
\* states and SweepAb symbols and never touches rep[].
UnionAlone == pc = "input" /\ argi = 1 /\ UnionCall

FindAlone == pc = "input" /\ argi = 1 /\ FindCall

ReadUntouched == call = NoCall /\ ProcessInput(SweepStates, SweepAb, 2)

NextWeights ==
    \/ UnionAlone
    \/ FindAlone
    \/ ReadUntouched
    \/ InitPartitions
    \/ PartitionGroup
    \/ PartitionReturn
    \/ Compress
    \/ FindDeadStates
    \/ Output

SpecWeights == Init /\ [][NextWeights]_vars

-----------------------------------------------------------------------------
(* minimize_dfa as one function, for running it again on a result *)

\* minimize_dfa, lines 153-154: partition until it returns FALSE.
RECURSIVE partition_until_false(_, _)
partition_until_false(dfa, grps) ==
    LET p == partition(dfa, grps)
    IN  IF p.ret THEN partition_until_false(dfa, p.groups) ELSE p.groups

minimize_dfa(old_dfa, new_dfa, grps, conn) ==
    LET g == partition_until_false(old_dfa,
                 init_partitions(old_dfa.nstates, old_dfa.state_attrib, grps))
        c == compress_dfa(old_dfa, new_dfa, g)
    IN  find_dead_states(c.new_dfa, conn).dfa

-----------------------------------------------------------------------------
(* Reference notions the properties are stated with *)

\* The words of length 0..MaxLen over the first nab symbols.
Words(nab) == UNION {[1..k -> 1..nab] : k \in 0..MaxLen}

\* The run of dfa on w[k..] from state s: a missing transition and a
\* transition into a dead state reject; at the end of the word the state must
\* have attribute 'A'.
RECURSIVE AcceptsFrom(_, _, _, _)
AcceptsFrom(dfa, s, w, k) ==
    IF k > Len(w) THEN dfa.state_attrib[s] = "A"
    ELSE LET t == dfa.mat[s][w[k]]
         IN  IF t = 0 \/ dfa.state_attrib[t] = "D" THEN FALSE
             ELSE AcceptsFrom(dfa, t, w, k + 1)

Accepts(dfa, w) == AcceptsFrom(dfa, dfa.init_state, w, 1)

\* The states reachable from the states of S by zero or more transitions.
RECURSIVE ReachFrom(_, _)
ReachFrom(dfa, S) ==
    LET T == S \cup {t \in 1..dfa.nstates :
                        \E x \in S, j \in 1..dfa.nab : dfa.mat[x][j] = t}
    IN  IF T = S THEN S ELSE ReachFrom(dfa, T)

Reach(dfa, s) == ReachFrom(dfa, {s})

\* The entries of the accept list before its first 0.
RECURSIVE ListedFrom(_, _)
ListedFrom(accept, k) ==
    IF k > Cap \/ accept[k] = 0 THEN <<>>
    ELSE <<accept[k]>> \o ListedFrom(accept, k + 1)

Listed(dfa) == ListedFrom(dfa.accept, 0)

AcceptStates(dfa) == {s \in 1..dfa.nstates : dfa.state_attrib[s] = "A"}

\* The class of state s in the partition of 1..nstates that grps holds.
ClassOf(s, nstates, grps) ==
    {t \in 1..nstates : find_root(t, grps) = find_root(s, grps)}

Smallest(S) == CHOOSE x \in S : \A y \in S : x <= y

\* A bijection of the states that carries a onto b.
Isomorphic(a, b) ==
    /\ a.nstates = b.nstates
    /\ a.nab = b.nab
    /\ \E f \in [1..a.nstates -> 1..b.nstates] :
          /\ \A s, t \in 1..a.nstates : f[s] = f[t] => s = t
          /\ f[a.init_state] = b.init_state
          /\ \A s \in 1..a.nstates :
                /\ a.state_attrib[s] = b.state_attrib[f[s]]
                /\ \A j \in 1..a.nab :
                      b.mat[f[s]][j] = IF a.mat[s][j] = 0 THEN 0 ELSE f[a.mat[s][j]]

\* What a minimization hands to output_dfa: the part of the automaton that
\* belongs to its nstates states.
Result(dfa) ==
    [nstates |-> dfa.nstates, nab |-> dfa.nab, init_state |-> dfa.init_state,
     mat |-> [s \in 1..dfa.nstates |-> [j \in 1..dfa.nab |-> dfa.mat[s][j]]],
     state_attrib |-> [s \in 1..dfa.nstates |-> dfa.state_attrib[s]],
     accept |-> Listed(dfa)]

-----------------------------------------------------------------------------
(* Properties *)

\* C1: language preservation.  When minimize_dfa has returned, the input DFA
\* and the output DFA accept the same words of length up to MaxLen.
LanguagePreserved ==
    pc = "output" =>
        \A w \in Words(in_dfa.nab) : Accepts(in_dfa, w) <=> Accepts(out_dfa, w)

\* C1 witness: a minimization that merged states and marked a state dead, of
\* a DFA that accepts some word and rejects another.
LanguagePreservedWitness ==
    /\ pc = "output"
    /\ out_dfa.nstates < in_dfa.nstates
    /\ \E s \in 1..out_dfa.nstates : out_dfa.state_attrib[s] = "D"
    /\ \E w \in Words(in_dfa.nab) : Len(w) > 1 /\ Accepts(out_dfa, w)
    /\ \E w \in Words(in_dfa.nab) : ~Accepts(in_dfa, w)

\* C2: minimality.  Any two distinct states of the output that are not marked
\* dead are told apart by some word: one accepts it and the other rejects it.
NoEquivalentLiveStates ==
    pc = "output" =>
        \A s, t \in 1..out_dfa.nstates :
            (s < t /\ out_dfa.state_attrib[s] # "D" /\ out_dfa.state_attrib[t] # "D")
                => \E w \in Words(out_dfa.nab) :
                      AcceptsFrom(out_dfa, s, w, 1) # AcceptsFrom(out_dfa, t, w, 1)

\* C3: idempotence.  Minimizing the output once more, with cleared buffers,
\* gives an automaton isomorphic to the output.
Idempotent ==
    pc = "output" =>
        Isomorphic(out_dfa, minimize_dfa(out_dfa, ZeroDfa, ZeroGroups, ZeroConnected))

\* C4: determinism.  Whatever was minimized before in the same process, the
\* result for the DFA in in_dfa is the one a process with cleared buffers
\* computes for it.
ResultDependsOnInputOnly ==
    pc = "output" =>
        Result(out_dfa) = Result(minimize_dfa(in_dfa, ZeroDfa, ZeroGroups, ZeroConnected))

\* C5: accept list rebuild.  Right after compress_dfa the accept list of the
\* output holds the accepting new ids in ascending order and then the
\* sentinel 0.
AcceptListRebuilt ==
    pc = "find_dead_states" =>
        LET acc == Ascending(AcceptStates(out_dfa))
        IN  /\ \A k \in 1..Len(acc) : out_dfa.accept[k - 1] = acc[k]
            /\ out_dfa.accept[Len(acc)] = 0

\* C6: dead-state soundness and completeness.  After find_dead_states on a
\* DFA that meets the data-model invariants, a state is dead iff it is not
\* reachable from the initial state or reaches no accepting state (the accept
\* list names the states that were accepting at the call).
DeadIffUnreachableOrHopeless ==
    pc = "output" =>
        LET accepting == {Listed(out_dfa)[k] : k \in 1..Len(Listed(out_dfa))}
        IN  \A s \in 1..out_dfa.nstates :
               out_dfa.state_attrib[s] = "D"
                   <=> \/ s \notin Reach(out_dfa, out_dfa.init_state)
                       \/ Reach(out_dfa, s) \cap accepting = {}

\* C6 witness: a call that marked one state dead because it is unreachable,
\* another, reachable one because it reaches no accepting state, and left a
\* third alive.
DeadIffWitness ==
    /\ pc = "output"
    /\ \E s, t, u \in 1..out_dfa.nstates :
          /\ s \notin Reach(out_dfa, out_dfa.init_state)
          /\ out_dfa.state_attrib[s] = "D"
          /\ t \in Reach(out_dfa, out_dfa.init_state)
          /\ out_dfa.state_attrib[t] = "D"
          /\ out_dfa.state_attrib[u] # "D"

\* C7: find_dead_states leaves every accepting state accepting.
AcceptNeverReclassified ==
    [][pc = "find_dead_states" =>
          \A s \in 1..out_dfa.nstates :
              out_dfa.state_attrib[s] = "A" => out_dfa'.state_attrib[s] = "A"]_vars

\* C7 amended: find_dead_states leaves every accepting state that is
\* reachable from the initial state accepting, and marks every accepting
\* state that is not reachable from it dead.
AcceptKeptIffReachable ==
    [][pc = "find_dead_states" =>
          \A s \in 1..out_dfa.nstates :
              out_dfa.state_attrib[s] = "A" =>
                  out_dfa'.state_attrib[s] =
                      IF s \in Reach(out_dfa, out_dfa.init_state) THEN "A" ELSE "D"]_vars

\* C7 witness: after a call, an accepting state other than the initial state
\* that is reachable and still accepting, and a listed accepting state that
\* is not reachable and now dead.
AcceptKeptWitness ==
    /\ pc = "output"
    /\ \E s, t \in 1..out_dfa.nstates :
          /\ s # out_dfa.init_state
          /\ s \in Reach(out_dfa, out_dfa.init_state)
          /\ out_dfa.state_attrib[s] = "A"
          /\ \E k \in 1..Len(Listed(out_dfa)) : Listed(out_dfa)[k] = t
          /\ out_dfa.state_attrib[t] = "D"

\* C8: canonical representative.  The old state compress_dfa keeps for a new
\* state is the smallest member of its class.
RepresentativeIsSmallest ==
    pc = "find_dead_states" =>
        \A k \in 1..out_dfa.nstates :
            pam[k] = Smallest(ClassOf(pam[k], in_dfa.nstates, groups))

\* C8 amended: the old state compress_dfa keeps for a new state is the only
\* member of its class, or else the second smallest member of its class.
RepresentativeIsSecondSmallest ==
    pc = "find_dead_states" =>
        \A k \in 1..out_dfa.nstates :
            LET class == ClassOf(pam[k], in_dfa.nstates, groups)
            IN  /\ pam[k] \in class
                /\ find_root(pam[k], groups) = pam[k]
                /\ pam[k] = IF Cardinality(class) = 1 THEN Smallest(class)
                            ELSE Smallest(class \ {Smallest(class)})

\* C8 witness: a final partition, reached after a sweep that split a class,
\* with a class of two or more states next to another class.
RepresentativeWitness ==
    /\ pc = "find_dead_states"
    /\ out_dfa.nstates >= 2
    /\ out_dfa.nstates < in_dfa.nstates
    /\ \E k \in 1..out_dfa.nstates :
          /\ Cardinality(ClassOf(pam[k], in_dfa.nstates, groups)) >= 2
          /\ in_dfa.state_attrib[pam[k]] = "N"
          /\ \E t \in 1..in_dfa.nstates :
                t \notin ClassOf(pam[k], in_dfa.nstates, groups)
                    /\ in_dfa.state_attrib[t] = "N"

\* C9: the initial state of the output of compress_dfa is 1.
OutputInitialStateIsOne ==
    pc = "find_dead_states" => out_dfa.init_state = 1

\* C10: with cleared buffers, the initial state of the output is dead iff the
\* input accepts no word; then every state of the output is dead, and
\* output_dfa prints the EMPTY line exactly in that case and never an initial
\* state with attribute 'D'.
InitialDeadIffEmptyLanguage ==
    LET empty == Reach(in_dfa, in_dfa.init_state) \cap AcceptStates(in_dfa) = {}
    IN  /\ pc = "output" =>
              /\ out_dfa.state_attrib[out_dfa.init_state] = "D" <=> empty
              /\ out_dfa.state_attrib[out_dfa.init_state] = "D" =>
                    \A s \in 1..out_dfa.nstates : out_dfa.state_attrib[s] = "D"
        /\ (pc = "input" /\ argi > 1) =>
              /\ printed.min.kind = "DFA minimized to EMPTY DFA" <=> empty
              /\ printed.min.kind = "table" <=> ~empty
              /\ printed.min.init[1] # "D"

\* C10 witness: a minimized DFA of two or more states with the empty language
\* has been printed as the EMPTY line, although the input had an accepting
\* state.
InitialDeadWitness ==
    /\ pc = "input"
    /\ argi > 1
    /\ out_dfa.nstates >= 2
    /\ AcceptStates(in_dfa) # {}
    /\ out_dfa.state_attrib[out_dfa.init_state] = "D"
    /\ printed.min.kind = "DFA minimized to EMPTY DFA"

\* The class of element e in the partition a rep[] vector holds, and the
\* elements on the parent chain from e up to, not including, its root.
RepClass(e, rp) == {x \in DOMAIN rp : x > 0 /\ find_root(x, rp) = find_root(e, rp)}

RECURSIVE Chain(_, _)
Chain(e, rp) == IF rp[e] > 0 THEN {e} \cup Chain(rp[e], rp) ELSE {}

\* C11: Union-Find correctness.  After any sequence of Union and find calls
\* from the all-zero vector, find gives two elements the same root iff the
\* reference partition has them in one class, and a find call leaves the
\* partition the vector holds as it was.
UnionFindCorrect ==
    /\ \A a, b \in Elements :
          (find(a, rep).ret = find(b, rep).ret) <=> (\E c \in classes : {a, b} \subseteq c)
    /\ call.op = "find" =>
          \A a, b \in Elements :
              (find(a, call.before).ret = find(b, call.before).ret)
                  <=> (find(a, rep).ret = find(b, rep).ret)

\* C11 witness: a find call that compressed a path, in a class of four or
\* more elements next to another class.
UnionFindWitness ==
    /\ call.op = "find"
    /\ rep # call.before
    /\ \E c, d \in classes : c # d /\ Cardinality(c) >= 4 /\ call.elem1 \in c

\* The root Union leaves on top when it joins the trees of the roots ra and rb
\* of the vector before: the tree with fewer elements goes under the other,
\* and onTie says which root survives when both have the same number.
SurvivingRoot(ra, rb, before, onTie) ==
    LET na == Cardinality(RepClass(ra, before))
        nb == Cardinality(RepClass(rb, before))
    IN  IF na > nb THEN ra
        ELSE IF na < nb THEN rb
        ELSE onTie

\* What a Union call that joined two trees did: the root that does not
\* survive points to the one that does, which is a root of the new vector.
UnionAttached(onTieFirst) ==
    LET ra == find_root(call.elem1, call.before)
        rb == find_root(call.elem2, call.before)
        top == SurvivingRoot(ra, rb, call.before, IF onTieFirst THEN ra ELSE rb)
        low == IF top = ra THEN rb ELSE ra
    IN  (call.op = "Union" /\ ra # rb) => (rep[low] = top /\ rep[top] < 0)

\* C12: weighted union.  The root of the tree with fewer elements is attached
\* under the root of the tree with more; with equal numbers the second
\* argument's root is attached under the first argument's root.
TieSecondUnderFirst == UnionAttached(TRUE)

\* C12 amended: the root of the tree with fewer elements is attached under
\* the root of the tree with more; with equal numbers the first argument's
\* root is attached under the second argument's root, which survives.
TieFirstUnderSecond == UnionAttached(FALSE)

\* C12 witness: a Union call that joined two trees of two elements each.
TieWitness ==
    LET ra == find_root(call.elem1, call.before)
        rb == find_root(call.elem2, call.before)
    IN  /\ call.op = "Union"
        /\ ra # rb
        /\ Cardinality(RepClass(ra, call.before)) = 2
        /\ Cardinality(RepClass(rb, call.before)) = 2
        /\ rep[ra] = rb

\* C13: exit status.  When the process has ended and some filename could not
\* be opened, the exit status is not 0; the exit status is 0 only when every
\* file was opened and input_dfa accepted every description.
NonzeroExitOnFailure ==
    pc = "exit" =>
        /\ open_failed => exit_status # 0
        /\ exit_status = 0 => (~open_failed /\ argi = MaxFiles + 1)

\* The partition of the states 1..nstates that grps holds.
Classes(nstates, grps) == {ClassOf(s, nstates, grps) : s \in 1..nstates}

\* C14: termination of refinement.  A call of partition never puts two
\* states of different classes into one class; a call that returns TRUE
\* leaves strictly more classes than it found, a call that returns FALSE
\* leaves the classes as they were; and minimize_dfa makes at most nstates
\* calls of partition.
SweepsStrictlyRefine ==
    [][pc = "partition" =>
          LET old == Classes(in_dfa.nstates, groups)
              new == Classes(in_dfa.nstates, groups')
          IN  /\ \A c \in new : \E d \in old : c \subseteq d
              /\ pc' = "partition" => Cardinality(new) > Cardinality(old)
              /\ pc' = "compress_dfa" => new = old
              /\ calls' <= in_dfa.nstates]_vars

\* C14 witness: the loop of minimize_dfa has ended after two calls of
\* partition that returned TRUE and one that returned FALSE.
SweepsWitness ==
    /\ pc = "compress_dfa"
    /\ calls = 3
    /\ Cardinality(Classes(in_dfa.nstates, groups)) = 3

\* The textbook refinement.  The accept / non-accept partition; the signature
\* of a state against a partition P (per symbol the class of the target, the
\* sink 0 being a class of its own, written {}); one sweep that splits every
\* class of P by the signatures against P; and the fixpoint of the sweeps.
InitialClasses(dfa) ==
    {AcceptStates(dfa), (1..dfa.nstates) \ AcceptStates(dfa)} \ {{}}

Signature(dfa, s, P) ==
    [j \in 1..dfa.nab |->
        IF dfa.mat[s][j] = 0 THEN {} ELSE CHOOSE c \in P : dfa.mat[s][j] \in c]

BatchSweep(dfa, P) ==
    UNION {{{t \in c : Signature(dfa, t, P) = Signature(dfa, s, P)} : s \in c} : c \in P}

RECURSIVE BatchFixpoint(_, _)
BatchFixpoint(dfa, P) ==
    IF BatchSweep(dfa, P) = P THEN P ELSE BatchFixpoint(dfa, BatchSweep(dfa, P))

\* C15: progressive refinement equals batch refinement.  When the loop of
\* minimize_dfa has ended, groups holds the classes of the fixpoint of the
\* textbook sweeps from the accept / non-accept partition.
ProgressiveEqualsBatch ==
    pc = "compress_dfa" =>
        Classes(in_dfa.nstates, groups) = BatchFixpoint(in_dfa, InitialClasses(in_dfa))

\* C15 witness: both initial classes have two states, the in-place sweeps
\* reached the fixpoint in one call of partition that returned TRUE, and the
\* textbook sweeps need a second one.
ProgressiveWitness ==
    /\ pc = "compress_dfa"
    /\ calls = 2
    /\ \A c \in InitialClasses(in_dfa) : Cardinality(c) = 2
    /\ BatchSweep(in_dfa, InitialClasses(in_dfa)) # InitialClasses(in_dfa)
    /\ BatchSweep(in_dfa, InitialClasses(in_dfa))
           # BatchFixpoint(in_dfa, InitialClasses(in_dfa))

\* C16: weight invariant.  In rep[] after any Union and find calls, and in
\* groups at every point of minimize_dfa (between the groups of a sweep too,
\* after update_partitions has copied cells), every root r holds minus the
\* number of the other elements of its class.
RootWeights ==
    /\ \A r \in Elements :
          rep[r] <= 0 => -rep[r] = Cardinality(RepClass(r, rep)) - 1
    /\ \A r \in 1..in_dfa.nstates :
          groups[r] <= 0 =>
              -groups[r] = Cardinality(ClassOf(r, in_dfa.nstates, groups)) - 1

\* C16 witness: in the middle of a sweep, after update_partitions has copied
\* the cells of a group that was split, there are a class of two or more
\* states and a singleton that came out of the split, and a group is still
\* to be looked at.
RootWeightsWitness ==
    /\ pc = "partition"
    /\ sweep.updated
    /\ sweep.rep <= in_dfa.nstates
    /\ \E r, t \in 1..in_dfa.nstates :
          /\ groups[r] < 0
          /\ groups[t] = 0
          /\ in_dfa.state_attrib[r] = in_dfa.state_attrib[t]
    /\ \E r \in sweep.rep..in_dfa.nstates : groups[r] < 0

\* C17: path compression.  After find(e, rep) has returned r, r is the root
\* the parent chain of e led to, every element that was on the chain from e
\* up to r (r not included) points to r, every other cell (the weight of r
\* too) is as before, and a second find(e, rep) returns r and changes nothing.
PathCompressed ==
    call.op = "find" =>
        LET e == call.elem1
            r == call.ret
            chain == Chain(e, call.before)
        IN  /\ call.before[r] <= 0
            /\ r \in RepClass(e, call.before)
            /\ r \notin chain
            /\ \A x \in chain : rep[x] = r
            /\ \A x \in Elements \ chain : rep[x] = call.before[x]
            /\ find(e, rep) = [ret |-> r, rep |-> rep]

\* C17 witness: a find call on an element two or more steps below its root,
\* whose root has other elements below it too.
PathCompressedWitness ==
    /\ call.op = "find"
    /\ Cardinality(Chain(call.elem1, call.before)) >= 2
    /\ rep[call.elem1] = call.ret
    /\ call.before[call.elem1] # call.ret
    /\ Cardinality(RepClass(call.ret, rep)) >= 4

\* C18: Warshall closure.  After init_connections and t_closure, the cell
\* connected[s][t] of two states of the DFA is TRUE iff t is reachable from s
\* by zero or more transitions, whatever the matrix held before the call.
ClosureIsReachability ==
    pc = "output" =>
        \A s, t \in 1..out_dfa.nstates :
            <<s, t>> \in connected <=> t \in Reach(out_dfa, s)

\* C18 witness: the matrix was full before the call (a cell outside the DFA
\* still is TRUE), some state reaches another one only through a third, and
\* some state does not reach another.
ClosureWitness ==
    /\ pc = "output"
    /\ out_dfa.nstates < Cap
    /\ <<Cap, Cap>> \in connected
    /\ \E s, t \in 1..out_dfa.nstates :
          /\ s # t
          /\ <<s, t>> \in connected
          /\ \A j \in 1..out_dfa.nab : out_dfa.mat[s][j] # t
    /\ \E s, t \in 1..out_dfa.nstates : <<s, t>> \notin connected

=============================================================================
